---- MODULE Spec2Model ----
(***************************************************************************)
(* A model of the gojq command line driver (package cli): one run of       *)
(* cli.run, from flag parsing through the input/evaluate/print loop to the *)
(* exit code.  The evaluator (gojq.Parse / gojq.Compile / Code.Run) is an  *)
(* external collaborator: a compiled query is represented by the sequence  *)
(* of items its result iterator yields for an input value.                 *)
(***************************************************************************)
EXTENDS Integers, Sequences, FiniteSets

(***************************************************************************)
(* Bounds of the model.                                                    *)
(***************************************************************************)
MaxFiles == 2
MaxDocs == 2
MaxResults == 3
MaxFilters == 2

(***************************************************************************)
(* Exit codes (const block of cli.go).                                     *)
(***************************************************************************)
exitCodeOK == 0
exitCodeFalsyErr == 1
exitCodeFlagParseErr == 2
exitCodeCompileErr == 3
exitCodeNoValueErr == 4
exitCodeDefaultErr == 5

(***************************************************************************)
(* Values (interface{} holding decoded data) and errors.                   *)
(***************************************************************************)
Null == [type |-> "null"]
False == [type |-> "bool", b |-> FALSE]
One == [type |-> "number", n |-> 1]
Values == {Null, False, One}
DocValues == {Null, One}

Array(s) == [type |-> "array", a |-> s]
String(s) == [type |-> "string", s |-> s]

Nil == [type |-> "nil"]

ErrorTypes ==
  {"error", "flagParseError", "queryParseError", "compileError",
   "jsonParseError", "yamlParseError", "emptyError", "exitCodeError"}

\* v.(error): whether the dynamic type of v is an error
IsError(v) == v.type \in ErrorTypes

Errorf(msg) == [type |-> "error", msg |-> msg]
flagParseError == [type |-> "flagParseError"]
queryParseError == [type |-> "queryParseError"]
compileError == [type |-> "compileError"]
jsonParseError(fname) == [type |-> "jsonParseError", fname |-> fname]
yamlParseError(fname) == [type |-> "yamlParseError", fname |-> fname]
emptyError(er) == [type |-> "emptyError", err |-> er]
exitCodeError(code) == [type |-> "exitCodeError", code |-> code]

\* the error an evaluator's result iterator yields
QueryError == Errorf("query error")

\* err.(interface{ ExitCode() int }) succeeds
HasExitCode(err) ==
  err.type \in {"flagParseError", "queryParseError", "compileError",
                "emptyError", "exitCodeError"}

\* err.ExitCode(); an empty error carries the default error code
ExitCode(err) ==
  CASE err.type = "flagParseError" -> exitCodeFlagParseErr
    [] err.type \in {"queryParseError", "compileError"} -> exitCodeCompileErr
    [] err.type = "exitCodeError" -> err.code
    [] OTHER -> exitCodeDefaultErr

\* err.(interface{ IsEmptyError() bool }) succeeds and returns true
IsEmptyError(err) == err.type \in {"emptyError", "exitCodeError"}

(***************************************************************************)
(* Input sources.  A source is a named byte stream holding well-formed     *)
(* documents, followed by malformed text when bad is set.                  *)
(***************************************************************************)
Source(name, docs, bad) == [name |-> name, docs |-> docs, bad |-> bad]
Malformed == [type |-> "malformed"]

FileNames == <<"A", "B", "C", "D">>

(***************************************************************************)
(* The input iterator family: Next() -> (value or error, ok).  An iterator *)
(* is a record: kind is the decoder, slurp the decorator around it, srcs   *)
(* the sources it reads in order, fi/di the current source and the number  *)
(* of records already taken from it, done whether a slurp or null iterator *)
(* has emitted its single record, reads the number of records decoded from *)
(* the sources, closed the number of Close calls.                          *)
(***************************************************************************)
newIterOver(kind, srcs, multi) ==
  [kind |-> kind, slurp |-> "none", srcs |-> srcs, multi |-> multi,
   fi |-> 1, di |-> 0, done |-> FALSE, reads |-> 0, closed |-> 0]

newNullInputIter ==
  [kind |-> "null", slurp |-> "none", srcs |-> <<>>, multi |-> FALSE,
   fi |-> 1, di |-> 0, done |-> FALSE, reads |-> 0, closed |-> 0]

newSlurpInputIter(iter) == [iter EXCEPT !.slurp = "slurp"]
newSlurpRawInputIter(iter) == [iter EXCEPT !.slurp = "slurpRaw"]

\* one decoder on one source, having yielded di records already
BaseNext(kind, src, di) ==
  LET n == Len(src.docs) IN
  CASE kind \in {"json", "stream"} ->
         IF di < n
           THEN [ok |-> TRUE,
                 v |-> IF kind = "json" THEN src.docs[di + 1]
                       ELSE Array(<<Array(<<>>), src.docs[di + 1]>>)]
         ELSE IF src.bad /\ di = n
           THEN [ok |-> TRUE, v |-> jsonParseError(src.name)]
         ELSE [ok |-> FALSE, v |-> Nil]
    [] kind = "yaml" ->
         IF di < n THEN [ok |-> TRUE, v |-> src.docs[di + 1]]
         ELSE IF src.bad /\ di = n
           THEN [ok |-> TRUE, v |-> yamlParseError(src.name)]
         ELSE [ok |-> FALSE, v |-> Nil]
    [] OTHER -> \* raw lines: any text is a line
         IF di < n THEN [ok |-> TRUE, v |-> String(<<src.docs[di + 1]>>)]
         ELSE IF src.bad /\ di = n
           THEN [ok |-> TRUE, v |-> String(<<Malformed>>)]
         ELSE [ok |-> FALSE, v |-> Nil]

\* the multi-file sequencer (or the single stdin decoder): the next record
\* of the current source, else of the following ones
RECURSIVE FilesNext(_)
FilesNext(it) ==
  IF it.fi > Len(it.srcs) THEN [ok |-> FALSE, v |-> Nil, it |-> it]
  ELSE LET r == BaseNext(it.kind, it.srcs[it.fi], it.di) IN
       IF r.ok
         THEN [ok |-> TRUE, v |-> r.v,
               it |-> [it EXCEPT !.di = it.di + 1, !.reads = it.reads + 1]]
         ELSE FilesNext([it EXCEPT !.fi = it.fi + 1, !.di = 0])

\* the slurp decorator: drains the wrapped iterator into one array; an
\* error of the wrapped iterator is emitted instead and ends the draining
RECURSIVE SlurpDrain(_, _)
SlurpDrain(it, vs) ==
  LET r == FilesNext(it) IN
  IF ~r.ok THEN [ok |-> TRUE, v |-> Array(vs), it |-> [r.it EXCEPT !.done = TRUE]]
  ELSE IF IsError(r.v) THEN [ok |-> TRUE, v |-> r.v, it |-> [r.it EXCEPT !.done = TRUE]]
  ELSE SlurpDrain(r.it, Append(vs, r.v))

\* the slurp-raw decorator: the whole text of all sources as one string
RECURSIVE SlurpRawDrain(_, _)
SlurpRawDrain(it, text) ==
  LET r == FilesNext(it) IN
  IF ~r.ok THEN [ok |-> TRUE, v |-> String(text), it |-> [r.it EXCEPT !.done = TRUE]]
  ELSE SlurpRawDrain(r.it, text \o r.v.s)

IterNext(it) ==
  CASE it.kind = "null" ->
         IF it.done THEN [ok |-> FALSE, v |-> Nil, it |-> it]
         ELSE [ok |-> TRUE, v |-> Null, it |-> [it EXCEPT !.done = TRUE]]
    [] it.kind # "null" /\ it.slurp = "slurp" ->
         IF it.done THEN [ok |-> FALSE, v |-> Nil, it |-> it]
         ELSE SlurpDrain(it, <<>>)
    [] it.kind # "null" /\ it.slurp = "slurpRaw" ->
         IF it.done THEN [ok |-> FALSE, v |-> Nil, it |-> it]
         ELSE SlurpRawDrain(it, <<>>)
    [] OTHER -> FilesNext(it)

IterClose(it) == [it EXCEPT !.closed = it.closed + 1]

(***************************************************************************)
(* The compiled query.  A query is represented by what its result iterator *)
(* yields: a sequence of items, each a constant value, an error, or the    *)
(* input value itself.                                                     *)
(***************************************************************************)
InputItem == [type |-> "input"]
ResultItems == Values \cup {QueryError, InputItem}

\* a query that is the debug filter, or the stderr filter: the item is the
\* filter's result on the input value
DebugItem == [type |-> "debug"]
StderrItem == [type |-> "stderr"]
FilterItems == {InputItem, False, DebugItem, StderrItem}

\* a query that is exec(path; args) or execpipe(path; args); outcome is
\* what the child process does: "ok", "nonzero" or "cannotStart"
ExecItem(fn, path, args, outcome) ==
  [type |-> "exec", fn |-> fn, i2 |-> <<path, args>>, outcome |-> outcome]

Text(t) == String(<<[type |-> "text", t |-> t]>>)

\* funcExecImpl(funcname, i, i2): the value or error it returns, and the
\* child process it started, if any
funcExecImpl(funcname, i, i2, outcome) ==
  IF i.type # "string" /\ i # Null
    THEN [v |-> Errorf("exec/2 filter input must be string"), started |-> <<>>]
  ELSE IF i2[1].type # "string"
    THEN [v |-> Errorf("the first argument must be string"), started |-> <<>>]
  ELSE IF i2[2].type # "array"
    THEN [v |-> Errorf("the second argument must be array of string"), started |-> <<>>]
  ELSE IF \E k \in 1..Len(i2[2].a) : i2[2].a[k].type # "string"
    THEN [v |-> Errorf("the second argument must be array of string"), started |-> <<>>]
  ELSE LET cmd == [path |-> i2[1], args |-> i2[2].a,
                   stdin |-> IF i.type = "string" THEN i.s ELSE <<>>]
       IN CASE outcome = "cannotStart" ->
                 [v |-> Errorf("cannot start"), started |-> <<>>]
            [] outcome = "nonzero" ->
                 [v |-> Errorf("exit status"), started |-> <<cmd>>]
            [] OTHER -> [v |-> Text("output"), started |-> <<cmd>>]

\* exec passing the filter's input on to the child
funcExecPipesInput(i, i2, outcome) == funcExecImpl("exec", i, i2, outcome)

funcExec(i, i2, outcome) == funcExecImpl("exec", Null, i2, outcome)

funcExecPipe(i, i2, outcome) == funcExecImpl("execpipe", i, i2, outcome)

\* debug writing its rendering to the output stream
funcDebugToOutStream(c, v) ==
  [ret |-> v,
   c |-> [c EXCEPT !.outStream =
            c.outStream \o <<[k |-> "filter", err |-> Nil,
                              v |-> Array(<<Text("DEBUG:"), v>>)],
                             [k |-> "newline", err |-> Nil]>>]]

\* cli.funcDebug(v, _) on the state c of the cli (its fields and streams):
\* what it returns and the state it leaves
funcDebug(c, v) ==
  [ret |-> v,
   c |-> [c EXCEPT !.errStream =
            c.errStream \o <<[k |-> "filter", err |-> Nil,
                              v |-> Array(<<Text("DEBUG:"), v>>)],
                             [k |-> "newline", err |-> Nil]>>]]

\* cli.funcStderr(v, _)
funcStderr(c, v) ==
  [ret |-> v,
   c |-> [c EXCEPT !.errStream =
            c.errStream \o <<[k |-> "filter", err |-> Nil, v |-> v]>>]]

\* the result iterator yields one item of the query on input v, with the
\* cli in state c: the value or error, the state of the cli afterwards, and
\* the child process started
Yield(item, v, c) ==
  CASE item.type = "input" -> [v |-> v, c |-> c, started |-> <<>>]
    [] item.type = "debug" ->
         [v |-> funcDebug(c, v).ret, c |-> funcDebug(c, v).c, started |-> <<>>]
    [] item.type = "stderr" ->
         [v |-> funcStderr(c, v).ret, c |-> funcStderr(c, v).c, started |-> <<>>]
    [] item.type = "exec" ->
         LET r == IF item.fn = "exec" THEN funcExec(v, item.i2, item.outcome)
                  ELSE funcExecPipe(v, item.i2, item.outcome)
         IN [v |-> r.v, c |-> c, started |-> r.started]
    [] OTHER -> [v |-> item, c |-> c, started |-> <<>>]

\* the state of a cli that has written nothing
Quiet == [cli |-> Nil, outStream |-> <<>>, errStream |-> <<>>]

\* code.Run(v, cli.argvalues...): the items the result iterator will yield
Run(query, v) ==
  [i \in 1..Len(query.results) |-> Yield(query.results[i], v, Quiet).v]

SeqsUpTo(S, n) == UNION {[1..k -> S] : k \in 0..n}

\* the native functions a query calls, with the number of arguments
Calls(results) ==
  {[name |-> results[i].type, arity |-> 0] :
     i \in {j \in 1..Len(results) : results[j].type \in {"debug", "stderr"}}}
  \cup
  {[name |-> results[i].fn, arity |-> 2] :
     i \in {j \in 1..Len(results) : results[j].type = "exec"}}

Query(results) ==
  [parses |-> TRUE, compiles |-> TRUE, calls |-> Calls(results),
   results |-> results]

(***************************************************************************)
(* The command line, the environment and the file system of one run.       *)
(***************************************************************************)
DefaultOpts ==
  [parse |-> "ok", Version |-> FALSE,
   OutputCompact |-> FALSE, OutputRaw |-> FALSE, OutputJoin |-> FALSE,
   OutputNul |-> FALSE, OutputColor |-> FALSE, OutputMono |-> FALSE,
   OutputYAML |-> FALSE, OutputIndent |-> <<>>, OutputTab |-> FALSE,
   InputNull |-> FALSE, InputRaw |-> FALSE, InputSlurp |-> FALSE,
   InputStream |-> FALSE, InputYAML |-> FALSE,
   FromFile |-> "", Args |-> {}, ArgsJSON |-> {}, SlurpFile |-> {},
   RawFile |-> {}, ExitStatus |-> FALSE, DisableUnsafe |-> FALSE,
   query |-> Query(<<InputItem>>),
   files |-> <<>>, stdin |-> Source("<stdin>", <<>>, FALSE),
   NO_COLOR |-> "", TERM |-> "xterm", GOJQ_COLORS |-> "", tty |-> FALSE,
   outBroken |-> FALSE, noColorBefore |-> FALSE]

RECURSIVE TotalDocs(_)
TotalDocs(fs) == IF fs = <<>> THEN 0 ELSE Len(Head(fs).docs) + TotalDocs(Tail(fs))

FileContents == SeqsUpTo(DocValues, MaxDocs) \X BOOLEAN

\* the file arguments: up to MaxFiles files holding up to MaxDocs documents
\* in all, named A, B, ... in argument order
FileLists ==
  UNION {{[i \in 1..k |-> Source(FileNames[i], c[i][1], c[i][2])] :
            c \in {d \in [1..k -> FileContents] :
                     TotalDocs([i \in 1..k |-> [docs |-> d[i][1]]]) <= MaxDocs}} :
         k \in 1..MaxFiles}

InputConfigs ==
  {[files |-> fs, stdin |-> Source("<stdin>", <<>>, FALSE)] : fs \in FileLists}
  \cup
  {[files |-> <<>>, stdin |-> Source("<stdin>", c[1], c[2])] : c \in FileContents}

InputKinds ==
  {[raw |-> FALSE, stream |-> FALSE, yaml |-> FALSE],
   [raw |-> TRUE, stream |-> FALSE, yaml |-> FALSE],
   [raw |-> FALSE, stream |-> TRUE, yaml |-> FALSE],
   [raw |-> FALSE, stream |-> FALSE, yaml |-> TRUE],
   [raw |-> TRUE, stream |-> TRUE, yaml |-> TRUE]}

\* runs that differ in their input: sources, decoder, slurp, null input
InputOpts(o) ==
  \E in \in InputConfigs, k \in InputKinds, sl \in BOOLEAN, nl \in BOOLEAN :
    o = [DefaultOpts EXCEPT !.files = in.files, !.stdin = in.stdin,
           !.InputRaw = k.raw, !.InputStream = k.stream, !.InputYAML = k.yaml,
           !.InputSlurp = sl, !.InputNull = nl]

\* runs that differ in the query's results and in how they are printed
ResultOpts(o) ==
  \E rs \in SeqsUpTo(ResultItems, MaxResults), bad \in BOOLEAN,
     es \in BOOLEAN, y \in BOOLEAN, br \in BOOLEAN :
    o = [DefaultOpts EXCEPT !.query = Query(rs),
           !.stdin = Source("<stdin>", <<One, Null>>, bad),
           !.ExitStatus = es, !.OutputYAML = y, !.outBroken = br]

IndentValues == {<<>>} \cup {<<n>> : n \in -1..10}

\* runs that differ in the flags and environment checked before any input
StartupOpts(o) ==
  \E p \in {"ok", "help", "err"}, v \in BOOLEAN, c \in BOOLEAN,
     gc \in {"", "valid", "invalid"}, ind \in IndentValues, y \in BOOLEAN,
     t \in BOOLEAN, es \in BOOLEAN, nl \in BOOLEAN, nc \in BOOLEAN :
    o = [DefaultOpts EXCEPT !.parse = p, !.Version = v, !.OutputColor = c,
           !.GOJQ_COLORS = gc, !.OutputIndent = ind, !.OutputYAML = y,
           !.OutputTab = t, !.ExitStatus = es, !.InputNull = nl,
           !.noColorBefore = nc, !.stdin = Source("<stdin>", <<One>>, FALSE)]

\* the bindings of one flag, a map from names to values: a value is "ok",
\* or "bad" when it cannot be read or parsed
Bindings == {{}, {[k |-> "a", v |-> "ok"]}, {[k |-> "a", v |-> "bad"]}}

\* the bindings of --arg: any string is a value
PlainBindings ==
  {{}, {[k |-> "a", v |-> "ok"]},
   {[k |-> "a", v |-> "ok"], [k |-> "b", v |-> "ok"]}}

\* runs that differ in what decides the color of the output
ColorOpts(o) ==
  \E c \in BOOLEAN, m \in BOOLEAN, nc \in {"", "1"}, t \in {"xterm", "dumb"},
     tty \in BOOLEAN, gc \in {"", "valid", "invalid"}, nb \in BOOLEAN :
    o = [DefaultOpts EXCEPT !.OutputColor = c, !.OutputMono = m,
           !.NO_COLOR = nc, !.TERM = t, !.tty = tty, !.GOJQ_COLORS = gc,
           !.noColorBefore = nb, !.stdin = Source("<stdin>", <<One>>, FALSE)]

\* runs whose query is made of the debug and stderr filters
FilterOpts(o) ==
  \E rs \in SeqsUpTo(FilterItems, MaxFilters), es \in BOOLEAN, y \in BOOLEAN,
     br \in BOOLEAN :
    o = [DefaultOpts EXCEPT !.query = Query(rs),
           !.stdin = Source("<stdin>", <<One, Null>>, FALSE),
           !.ExitStatus = es, !.OutputYAML = y, !.outBroken = br]

ExecPaths == {Text("path"), One}
ExecArgs == {Array(<<Text("arg")>>), Array(<<Text("arg"), One>>), Null}
ExecInputs == {Null, One, Text("input")}

\* runs whose query is one call of exec or execpipe
ExecOpts(o) ==
  \E fn \in {"exec", "execpipe"}, path \in ExecPaths, args \in ExecArgs,
     outcome \in {"ok", "nonzero", "cannotStart"}, in \in ExecInputs,
     du \in BOOLEAN :
    o = [DefaultOpts EXCEPT
           !.query = Query(<<ExecItem(fn, path, args, outcome)>>),
           !.stdin = Source("<stdin>", <<in>>, FALSE),
           !.DisableUnsafe = du]

\* runs that differ in the output flags
OutputOpts(o) ==
  \E c \in BOOLEAN, r \in BOOLEAN, j \in BOOLEAN, n \in BOOLEAN, y \in BOOLEAN,
     t \in BOOLEAN, ind \in {<<>>, <<0>>, <<4>>}, br \in BOOLEAN :
    o = [DefaultOpts EXCEPT !.OutputCompact = c, !.OutputRaw = r,
           !.OutputJoin = j, !.OutputNul = n, !.OutputYAML = y,
           !.OutputTab = t, !.OutputIndent = ind, !.outBroken = br,
           !.query = Query(<<InputItem, False>>),
           !.stdin = Source("<stdin>", <<One>>, FALSE)]

\* runs that differ in the argument bindings and in the query's fate
QueryOpts(o) ==
  \E a \in PlainBindings, aj \in Bindings, sf \in Bindings, rf \in Bindings,
     ff \in {"", "ok", "unreadable"},
     q \in {<<TRUE, TRUE, {}>>, <<TRUE, FALSE, {}>>, <<FALSE, FALSE, {}>>,
            <<TRUE, TRUE, {[name |-> "exec", arity |-> 2]}>>,
            <<TRUE, TRUE, {[name |-> "execpipe", arity |-> 2]}>>},
     du \in BOOLEAN, es \in BOOLEAN :
    o = [DefaultOpts EXCEPT
           !.Args = a,
           !.ArgsJSON = aj, !.SlurpFile = sf, !.RawFile = rf, !.FromFile = ff,
           !.query = [parses |-> q[1], compiles |-> q[2], calls |-> q[3],
                      results |-> <<InputItem>>],
           !.DisableUnsafe = du, !.ExitStatus = es,
           !.stdin = Source("<stdin>", <<One>>, FALSE)]

(***************************************************************************)
(* State.                                                                  *)
(***************************************************************************)
VARIABLES
  opts,       \* the parsed command line, the environment and the sources
  pc,         \* the position of the run
  cli,        \* the fields of the cli struct
  noColor,    \* the process-wide color-disabled setting
  defers,     \* the deferred calls of runInternal, last registered first
  outStream,  \* what was written to cli.outStream
  errStream,  \* what was written to cli.errStream
  iter,       \* the iterator built by createInputIter
  nullIter,   \* the iterator built by newNullInputIter
  err,        \* process's local err
  retErr,     \* the error runInternal returns
  exitCode,   \* what run returns
  runs,       \* the evaluator invocations: input value and result items
  ri,         \* how many items of the last invocation were pulled
  pulled,     \* the records process pulled from its iterator
  printed,    \* the result values marshalled successfully
  children,   \* the child processes exec and execpipe started
  slurped     \* the iterators slurpFile built, as it left them

vars ==
  <<opts, pc, cli, noColor, defers, outStream, errStream, iter, nullIter,
    err, retErr, exitCode, runs, ri, pulled, printed, children,
                 slurped>>

NoIter ==
  [kind |-> "none", slurp |-> "none", srcs |-> <<>>, multi |-> FALSE,
   fi |-> 1, di |-> 0, done |-> FALSE, reads |-> 0, closed |-> 0]

\* the zero value of the cli struct
NewCli ==
  [outputCompact |-> FALSE, outputRaw |-> FALSE, outputJoin |-> FALSE,
   outputNul |-> FALSE, outputYAML |-> FALSE, outputIndent |-> <<>>,
   outputTab |-> FALSE, inputRaw |-> FALSE, inputSlurp |-> FALSE,
   inputStream |-> FALSE, inputYAML |-> FALSE, disableUnsafe |-> FALSE,
   argnames |-> <<>>, outputYAMLSeparator |-> FALSE, exitCodeError |-> Nil]

Init ==
  /\ \/ InputOpts(opts)
     \/ ResultOpts(opts)
     \/ StartupOpts(opts)
     \/ QueryOpts(opts)
     \/ ColorOpts(opts)
     \/ FilterOpts(opts)
     \/ ExecOpts(opts)
     \/ OutputOpts(opts)
  /\ pc = "start"
  /\ cli = NewCli
  /\ noColor = opts.noColorBefore
  /\ defers = <<>>
  /\ outStream = <<>>
  /\ errStream = <<>>
  /\ iter = NoIter
  /\ nullIter = NoIter
  /\ err = Nil
  /\ retErr = Nil
  /\ exitCode = -1
  /\ runs = <<>>
  /\ ri = 0
  /\ pulled = <<>>
  /\ printed = <<>>
  /\ children = <<>>
  /\ slurped = <<>>

\* w.Write of one chunk to the output stream: on a broken stream the write
\* fails and only the attempt is recorded
Write(stream, chunk) ==
  Append(stream, IF opts.outBroken THEN [k |-> "failed", of |-> chunk.k] ELSE chunk)

\* return e from runInternal: the deferred calls run next
Return(e) == retErr' = e /\ pc' = "return"

\* printError without the test for an empty error
printErrorAlways(stream, e) == Append(stream, [k |-> "diag", err |-> e])

\* cli.printError: one diagnostic line, unless the error is an empty error
printError(stream, e) ==
  IF IsEmptyError(e) THEN stream ELSE Append(stream, [k |-> "diag", err |-> e])

(***************************************************************************)
(* runInternal, up to the input loop.                                      *)
(***************************************************************************)

\* flags.ParseArgs, the help text, the version text, and the copy of the
\* output flags into the cli struct
ParseArgs ==
  /\ pc = "start"
  /\ CASE opts.parse = "help" ->
            /\ outStream' = Write(outStream, [k |-> "help"])
            /\ Return(Nil)
            /\ UNCHANGED cli
       [] opts.parse = "err" ->
            /\ Return(flagParseError)
            /\ UNCHANGED <<outStream, cli>>
       [] opts.parse = "ok" /\ opts.Version ->
            /\ outStream' = Write(outStream, [k |-> "version"])
            /\ Return(Nil)
            /\ UNCHANGED cli
       [] OTHER ->
            /\ cli' = [cli EXCEPT !.outputCompact = opts.OutputCompact,
                                  !.outputRaw = opts.OutputRaw,
                                  !.outputJoin = opts.OutputJoin,
                                  !.outputNul = opts.OutputNul,
                                  !.outputYAML = opts.OutputYAML,
                                  !.outputIndent = opts.OutputIndent,
                                  !.outputTab = opts.OutputTab,
                                  !.disableUnsafe = opts.DisableUnsafe]
            /\ pc' = "color"
            /\ UNCHANGED <<outStream, retErr>>
  /\ UNCHANGED <<opts, noColor, defers, errStream, iter, nullIter, err,
                 exitCode, runs, ri, pulled, printed, children,
                 slurped>>

\* isTTY(cli.outStream)
isTTY(o) == IF o.TERM = "dumb" THEN FALSE ELSE o.tty

\* the choice of noColor without NO_COLOR
ChooseNoColorIgnoringEnv(o) ==
  IF o.OutputColor \/ o.OutputMono THEN o.OutputMono
  ELSE ~isTTY(o)

\* the value noColor takes for the run
ChooseNoColor(o) ==
  IF o.OutputColor \/ o.OutputMono THEN o.OutputMono
  ELSE IF o.NO_COLOR # "" THEN TRUE
  ELSE ~isTTY(o)

\* the color setting chosen without the deferred restore
SetColorNoRestore ==
  /\ pc = "color"
  /\ noColor' = ChooseNoColor(opts)
  /\ IF ~noColor' /\ opts.GOJQ_COLORS = "invalid"
       THEN Return(Errorf("invalid color"))
       ELSE pc' = "indent" /\ UNCHANGED retErr
  /\ UNCHANGED <<opts, cli, defers, outStream, errStream, iter, nullIter,
                 err, exitCode, runs, ri, pulled, printed, children, slurped>>

\* the color setting: saved for the deferred restore, chosen, and the color
\* scheme of GOJQ_COLORS applied
SetColor ==
  /\ pc = "color"
  /\ defers' = <<[f |-> "restoreNoColor", x |-> noColor]>> \o defers
  /\ noColor' = ChooseNoColor(opts)
  /\ IF ~noColor' /\ opts.GOJQ_COLORS = "invalid"
       THEN Return(Errorf("invalid color"))
       ELSE pc' = "indent" /\ UNCHANGED retErr
  /\ UNCHANGED <<opts, cli, outStream, errStream, iter, nullIter, err,
                 exitCode, runs, ri, pulled, printed, children,
                 slurped>>

\* the indentation check with the upper limit off by one
IndentErrorOffByOne(i) ==
  IF i # <<>>
    THEN IF i[1] >= 9 THEN Errorf("too many indentation count")
         ELSE IF i[1] < 0 THEN Errorf("negative indentation count")
         ELSE Nil
    ELSE Nil

\* the check of cli.outputIndent: the error it returns, or Nil
IndentError(i) ==
  IF i # <<>>
    THEN IF i[1] > 9 THEN Errorf("too many indentation count")
         ELSE IF i[1] < 0 THEN Errorf("negative indentation count")
         ELSE Nil
    ELSE Nil

CheckIndent ==
  /\ pc = "indent"
  /\ IF IndentError(cli.outputIndent) # Nil
       THEN Return(IndentError(cli.outputIndent))
       ELSE pc' = "yamltab" /\ UNCHANGED retErr
  /\ UNCHANGED <<opts, cli, noColor, defers, outStream, errStream, iter,
                 nullIter, err, exitCode, runs, ri, pulled, printed, children,
                 slurped>>

\* the YAML/tab check made only when no indent was requested
YAMLTabErrorOnlyWithoutIndent(o) ==
  IF o.OutputYAML /\ o.OutputTab /\ o.OutputIndent = <<>>
    THEN Errorf("cannot use tabs for YAML output")
    ELSE Nil

\* the check of --yaml-output with --tab
YAMLTabError(o) ==
  IF o.OutputYAML /\ o.OutputTab
    THEN Errorf("cannot use tabs for YAML output")
    ELSE Nil

\* the YAML/tab check, then the copy of the input flags into the cli struct
CheckYAMLTab ==
  /\ pc = "yamltab"
  /\ IF YAMLTabError(opts) # Nil
       THEN Return(YAMLTabError(opts)) /\ UNCHANGED cli
       ELSE /\ cli' = [cli EXCEPT !.inputRaw = opts.InputRaw,
                                  !.inputSlurp = opts.InputSlurp,
                                  !.inputStream = opts.InputStream,
                                  !.inputYAML = opts.InputYAML]
            /\ pc' = "bind"
            /\ UNCHANGED retErr
  /\ UNCHANGED <<opts, noColor, defers, outStream, errStream, iter,
                 nullIter, err, exitCode, runs, ri, pulled, printed, children,
                 slurped>>

\* the orders in which a range over a map may visit its entries
Orders(m) ==
  {s \in [1..Cardinality(m) -> m] : \A i, j \in 1..Cardinality(m) : s[i] = s[j] => i = j}

\* no binding is ever found unreadable
FirstBadIgnored(bs) == 0

\* the index of the first binding that cannot be read or parsed, else 0
FirstBad(bs) ==
  IF \E i \in 1..Len(bs) : bs[i].v = "bad"
    THEN CHOOSE i \in 1..Len(bs) :
           bs[i].v = "bad" /\ \A j \in 1..(i - 1) : bs[j].v # "bad"
    ELSE 0

\* the file a --slurpfile binding names
BindingFile(b) == Source(b.k, <<One, Null>>, b.v = "bad")

\* slurpFile closing its iterator only when it returns a value
slurpFileLeaksOnError(src) ==
  LET r == IterNext(newSlurpInputIter(newIterOver("json", <<src>>, TRUE)))
  IN IF IsError(r.v) THEN [val |-> Nil, err |-> r.v, iter |-> r.it]
     ELSE [val |-> r.v, err |-> Nil, iter |-> IterClose(r.it)]

\* slurpFile(name): the value and the error it returns, and its iterator
\* as it is left on return
slurpFile(src) ==
  LET r == IterNext(newSlurpInputIter(newIterOver("json", <<src>>, TRUE)))
      left == IterClose(r.it)
  IN IF IsError(r.v) THEN [val |-> Nil, err |-> r.v, iter |-> left]
     ELSE [val |-> r.v, err |-> Nil, iter |-> left]

\* the names bound, without the last one
ArgNamesButLast(bs, n) == [i \in 1..(IF n = 0 THEN 0 ELSE n - 1) |-> "$" \o bs[i].k]

\* the names cli.argnames gains from the first n bindings
ArgNames(bs, n) == [i \in 1..n |-> "$" \o bs[i].k]

\* the four binding loops: --arg, --argjson, --slurpfile, --rawfile
BindArgs ==
  /\ pc = "bind"
  /\ \E a \in Orders(opts.Args), aj \in Orders(opts.ArgsJSON),
        sf \in Orders(opts.SlurpFile), rf \in Orders(opts.RawFile) :
       LET plain == [i \in 1..Len(a) |-> [k |-> a[i].k, v |-> "ok"]]
           bs == plain \o aj \o sf \o rf
           bad == FirstBad(bs)
           n == IF bad = 0 THEN Len(bs) ELSE bad - 1
           before == Len(plain) + Len(aj)
           read == {i \in 1..Len(sf) : bad = 0 \/ before + i <= bad}
       IN /\ cli' = [cli EXCEPT !.argnames = cli.argnames \o ArgNames(bs, n)]
          /\ slurped' = slurped \o
                [i \in 1..Cardinality(read) |-> slurpFile(BindingFile(sf[i])).iter]
          /\ IF bad = 0
               THEN pc' = "query" /\ UNCHANGED retErr
               ELSE IF bad <= before
                 THEN Return(jsonParseError("$" \o bs[bad].k))
               ELSE IF bad <= before + Len(sf)
                 THEN Return(slurpFile(BindingFile(bs[bad])).err)
                 ELSE Return(Errorf("cannot read file"))
  /\ UNCHANGED <<opts, noColor, defers, outStream, errStream, iter,
                 nullIter, err, exitCode, runs, ri, pulled, printed, children>>

\* the query text is read, exit-status mode is set up, the query is parsed
LoadQuery ==
  /\ pc = "query"
  /\ IF opts.FromFile = "unreadable"
       THEN Return(Errorf("cannot read file")) /\ UNCHANGED <<cli, defers>>
       ELSE /\ IF opts.ExitStatus
                 THEN /\ cli' = [cli EXCEPT !.exitCodeError =
                                   exitCodeError(exitCodeNoValueErr)]
                      /\ defers' = <<[f |-> "exitStatus"]>> \o defers
                 ELSE UNCHANGED <<cli, defers>>
            /\ IF ~opts.query.parses
                 THEN Return(queryParseError)
                 ELSE pc' = "compile" /\ UNCHANGED retErr
  /\ UNCHANGED <<opts, noColor, outStream, errStream, iter, nullIter, err,
                 exitCode, runs, ri, pulled, printed, children,
                 slurped>>

\* createInputIter without the deferred slurp wrapping
createInputIterSlurpIgnored(c, args, stdin) ==
  LET kind == CASE c.inputRaw -> "raw"
                [] ~c.inputRaw /\ c.inputStream -> "stream"
                [] ~c.inputRaw /\ ~c.inputStream /\ c.inputYAML -> "yaml"
                [] OTHER -> "json"
  IN IF Len(args) = 0 THEN newIterOver(kind, <<stdin>>, FALSE)
     ELSE newIterOver(kind, args, TRUE)

\* cli.createInputIter(args), with stdin the content of cli.inStream
createInputIter(c, args, stdin) ==
  LET kind == CASE c.inputRaw -> "raw"
                [] ~c.inputRaw /\ c.inputStream -> "stream"
                [] ~c.inputRaw /\ ~c.inputStream /\ c.inputYAML -> "yaml"
                [] OTHER -> "json"
      base == IF Len(args) = 0 THEN newIterOver(kind, <<stdin>>, FALSE)
              ELSE newIterOver(kind, args, TRUE)
  IN IF c.inputSlurp
       THEN IF c.inputRaw THEN newSlurpRawInputIter(base)
            ELSE newSlurpInputIter(base)
       ELSE base

\* exec and execpipe registered whatever the run mode is
coptsUnsafeAlways(c) ==
  {[name |-> "debug", min |-> 0, max |-> 0],
   [name |-> "stderr", min |-> 0, max |-> 0],
   [name |-> "execpipe", min |-> 2, max |-> 2],
   [name |-> "exec", min |-> 2, max |-> 2]}

\* the native functions among the compiler options
copts(c) ==
  {[name |-> "debug", min |-> 0, max |-> 0],
   [name |-> "stderr", min |-> 0, max |-> 0]}
  \cup
  (IF ~c.disableUnsafe
     THEN {[name |-> "execpipe", min |-> 2, max |-> 2],
           [name |-> "exec", min |-> 2, max |-> 2]}
     ELSE {})

\* whether gojq.Compile accepts the query with the functions registered:
\* every native function the query calls is registered with that arity
Compiles(q, fns) ==
  /\ q.compiles
  /\ \A f \in q.calls :
       \E r \in fns : r.name = f.name /\ r.min <= f.arity /\ f.arity <= r.max

\* null input honored only when no file argument is given
InputNullSelectedOnlyWithoutFiles(o) == o.InputNull /\ o.files = <<>>

\* the iterator process reads from, chosen after a successful compile
InputNullSelected(o) == o.InputNull

\* the input iterator is created and its Close deferred, the query is
\* compiled, and null input replaces the iterator
Compile ==
  /\ pc = "compile"
  /\ iter' = createInputIter(cli, opts.files, opts.stdin)
  /\ defers' = <<[f |-> "iterClose"]>> \o defers
  /\ IF ~Compiles(opts.query, copts(cli))
       THEN Return(compileError) /\ UNCHANGED nullIter
       ELSE /\ nullIter' = IF InputNullSelected(opts) THEN newNullInputIter
                           ELSE nullIter
            /\ pc' = "process"
            /\ UNCHANGED retErr
  /\ UNCHANGED <<opts, cli, noColor, outStream, errStream, err, exitCode,
                 runs, ri, pulled, printed, children,
                 slurped>>

(***************************************************************************)
(* process: the input loop.                                                *)
(***************************************************************************)

\* the iterator passed to process
ProcIter == IF nullIter.kind = "null" THEN nullIter ELSE iter

\* v, ok := iter.Next()
NextRecord == IterNext(ProcIter)

\* the iterator passed to process advances
Advance(it) ==
  IF nullIter.kind = "null"
    THEN nullIter' = it /\ UNCHANGED iter
    ELSE iter' = it /\ UNCHANGED nullIter

\* the failure is not recorded
recordFailureLost(er) == Nil

\* err = &emptyError{er}
recordFailure(er) == emptyError(er)

\* the iterator is exhausted: process returns err
ProcessEnd ==
  /\ pc = "process"
  /\ ~NextRecord.ok
  /\ Advance(NextRecord.it)
  /\ Return(err)
  /\ UNCHANGED <<opts, cli, noColor, defers, outStream, errStream, err,
                 exitCode, runs, ri, pulled, printed, children,
                 slurped>>

\* the record is an error: it is printed and process returns at once
ProcessErrorAborts ==
  /\ pc = "process"
  /\ NextRecord.ok
  /\ IsError(NextRecord.v)
  /\ Advance(NextRecord.it)
  /\ pulled' = Append(pulled, NextRecord.v)
  /\ errStream' = printError(errStream, NextRecord.v)
  /\ err' = recordFailure(NextRecord.v)
  /\ Return(recordFailure(NextRecord.v))
  /\ UNCHANGED <<opts, cli, noColor, defers, outStream, exitCode, runs, ri,
                 printed, children,
                 slurped>>

\* the record is an error: it is printed and recorded, and the loop goes on
ProcessError ==
  /\ pc = "process"
  /\ NextRecord.ok
  /\ IsError(NextRecord.v)
  /\ Advance(NextRecord.it)
  /\ pulled' = Append(pulled, NextRecord.v)
  /\ errStream' = printError(errStream, NextRecord.v)
  /\ err' = recordFailure(NextRecord.v)
  /\ UNCHANGED <<opts, pc, cli, noColor, defers, outStream, retErr,
                 exitCode, runs, ri, printed, children,
                 slurped>>

\* the record is a value: the evaluator is run on it
ProcessValue ==
  /\ pc = "process"
  /\ NextRecord.ok
  /\ ~IsError(NextRecord.v)
  /\ Advance(NextRecord.it)
  /\ pulled' = Append(pulled, NextRecord.v)
  /\ runs' = Append(runs, [input |-> NextRecord.v,
                           results |-> Run(opts.query, NextRecord.v)])
  /\ ri' = 0
  /\ pc' = "printValues"
  /\ UNCHANGED <<opts, cli, noColor, defers, outStream, errStream, err,
                 retErr, exitCode, printed, children,
                 slurped>>

(***************************************************************************)
(* printValues: the loop over the result iterator of one invocation, and   *)
(* what process does with the error it returns.                            *)
(***************************************************************************)

\* createMarshaler testing the tab flag before the compact flag
createMarshalerTabFirst(c) ==
  IF c.outputYAML
    THEN [enc |-> "yaml", indent |-> c.outputIndent, tab |-> FALSE, raw |-> FALSE]
    ELSE [enc |-> "json",
          indent |-> IF c.outputTab THEN <<1>>
                     ELSE IF c.outputCompact THEN <<0>>
                     ELSE IF c.outputIndent # <<>> THEN c.outputIndent
                     ELSE <<2>>,
          tab |-> c.outputTab,
          raw |-> c.outputRaw \/ c.outputJoin \/ c.outputNul]

\* cli.createMarshaler
createMarshaler(c) ==
  IF c.outputYAML
    THEN [enc |-> "yaml", indent |-> c.outputIndent, tab |-> FALSE, raw |-> FALSE]
    ELSE [enc |-> "json",
          indent |-> IF c.outputCompact THEN <<0>>
                     ELSE IF c.outputTab THEN <<1>>
                     ELSE IF c.outputIndent # <<>> THEN c.outputIndent
                     ELSE <<2>>,
          tab |-> c.outputTab,
          raw |-> c.outputRaw \/ c.outputJoin \/ c.outputNul]

\* the items of the invocation being drained
Results == runs[Len(runs)].results

\* v == nil only
FalsyNullOnly(v) == v = Null

\* v == nil || v == false
Falsy(v) == v = Null \/ v = False

\* the accumulator set whether or not exit-status mode set it up
NextExitCodeErrorUnguarded(e, v) ==
  IF Falsy(v) THEN exitCodeError(exitCodeFalsyErr) ELSE exitCodeError(exitCodeOK)

\* the exit-status accumulator after v was printed
NextExitCodeError(e, v) ==
  IF e # Nil
    THEN IF Falsy(v) THEN exitCodeError(exitCodeFalsyErr)
         ELSE exitCodeError(exitCodeOK)
    ELSE e

\* the terminator chosen with NUL mode tested before join mode
TerminatorNulFirst(c) ==
  IF c.outputNul THEN <<[k |-> "nul"]>>
  ELSE IF ~c.outputJoin /\ ~c.outputYAML THEN <<[k |-> "newline"]>>
  ELSE <<>>

\* the terminator written after a value
Terminator(c) ==
  IF ~c.outputJoin /\ ~c.outputYAML
    THEN IF c.outputNul THEN <<[k |-> "nul"]>> ELSE <<[k |-> "newline"]>>
    ELSE <<>>

\* the state of the cli a native function of the query runs in
Streams == [cli |-> cli, outStream |-> outStream, errStream |-> errStream]

\* v, ok := iter.Next() on the result iterator: the evaluator computes the
\* next item of the invocation being drained
NextItem == Yield(opts.query.results[ri + 1], runs[Len(runs)].input, Streams)

\* the child process the evaluator started for the item, if any
Started(y) ==
  [i \in 1..Len(y.started) |->
     [run |-> Len(runs), item |-> ri + 1, cmd |-> y.started[i]]]

\* printValues returns nil as soon as some item was pulled
PrintValuesEndEarly ==
  /\ pc = "printValues"
  /\ ri = Len(Results) \/ ri >= 1
  /\ pc' = "process"
  /\ UNCHANGED <<opts, cli, noColor, defers, outStream, errStream, iter,
                 nullIter, err, retErr, exitCode, runs, ri, pulled, printed,
                 children, slurped>>

\* the result iterator is exhausted: printValues returns nil
PrintValuesEnd ==
  /\ pc = "printValues"
  /\ ri = Len(Results)
  /\ pc' = "process"
  /\ UNCHANGED <<opts, cli, noColor, defers, outStream, errStream, iter,
                 nullIter, err, retErr, exitCode, runs, ri, pulled, printed,
                 children, slurped>>

\* the item is an error: it is printed and recorded and the draining of
\* the same result iterator goes on
PrintValuesErrorContinues ==
  /\ pc = "printValues"
  /\ ri < Len(runs[Len(runs)].results)
  /\ IsError(NextItem.v)
  /\ ri' = ri + 1
  /\ children' = children \o Started(NextItem)
  /\ errStream' = printError(NextItem.c.errStream, NextItem.v)
  /\ err' = recordFailure(NextItem.v)
  /\ UNCHANGED <<opts, pc, cli, noColor, defers, outStream, iter, nullIter,
                 retErr, exitCode, runs, pulled, printed, slurped>>

\* the item is an error: printValues returns it, process prints and
\* records it and goes on to the next input record
PrintValuesError ==
  /\ pc = "printValues"
  /\ ri < Len(Results)
  /\ IsError(NextItem.v)
  /\ ri' = ri + 1
  /\ children' = children \o Started(NextItem)
  /\ errStream' = printError(NextItem.c.errStream, NextItem.v)
  /\ err' = recordFailure(NextItem.v)
  /\ pc' = "process"
  /\ UNCHANGED <<opts, cli, noColor, defers, outStream, iter, nullIter,
                 retErr, exitCode, runs, pulled, printed, slurped>>

\* the separator flag set after the first value whatever the output mode
YAMLSeparatorAlways(c) == TRUE

\* cli.outputYAMLSeparator after a value was about to be written
YAMLSeparatorNext(c) == IF c.outputYAMLSeparator THEN TRUE ELSE c.outputYAML

\* the item is a value: separator, marshal, exit status, terminator; a
\* failed marshal is returned to process like an error item
PrintValuesValue ==
  /\ pc = "printValues"
  /\ ri < Len(Results)
  /\ ~IsError(NextItem.v)
  /\ ri' = ri + 1
  /\ children' = children \o Started(NextItem)
  /\ LET v == NextItem.v
         c == NextItem.c
         sep == IF c.cli.outputYAMLSeparator
                  THEN Write(c.outStream, [k |-> "separator"])
                  ELSE c.outStream
         flag == YAMLSeparatorNext(c.cli)
         marshalled ==
           Write(sep, [k |-> "value", v |-> v, m |-> createMarshaler(c.cli),
                       color |-> ~noColor])
     IN IF opts.outBroken
          THEN /\ cli' = [c.cli EXCEPT !.outputYAMLSeparator = flag]
               /\ outStream' = marshalled
               /\ errStream' = printError(c.errStream, Errorf("write error"))
               /\ err' = recordFailure(Errorf("write error"))
               /\ pc' = "process"
               /\ UNCHANGED printed
          ELSE /\ cli' = [c.cli EXCEPT
                            !.outputYAMLSeparator = flag,
                            !.exitCodeError = NextExitCodeError(c.cli.exitCodeError, v)]
               /\ outStream' = marshalled \o Terminator(c.cli)
               /\ errStream' = c.errStream
               /\ printed' = Append(printed, [run |-> Len(runs), item |-> ri + 1, v |-> v])
               /\ UNCHANGED <<pc, err>>
  /\ UNCHANGED <<opts, noColor, defers, iter, nullIter, retErr, exitCode,
                 runs, pulled, slurped>>

(***************************************************************************)
(* The return of runInternal, and run.                                     *)
(***************************************************************************)

\* the deferred exit-status function replaces whatever is returned
ExitStatusAlwaysReplaces(e) == TRUE

\* the deferred exit-status function replaces the error being returned
ExitStatusReplaces(e) == ~HasExitCode(e) \/ ExitCode(e) = exitCodeOK

RECURSIVE RunDeferred(_, _)
\* the state after the deferred calls ds ran in order on state st
RunDeferred(ds, st) ==
  IF ds = <<>> THEN st
  ELSE LET d == Head(ds) IN
       RunDeferred(Tail(ds),
         CASE d.f = "iterClose" -> [st EXCEPT !.iter = IterClose(st.iter)]
           [] d.f = "exitStatus" ->
                IF ExitStatusReplaces(st.err)
                  THEN [st EXCEPT !.err = cli.exitCodeError]
                  ELSE st
           [] OTHER -> [st EXCEPT !.noColor = d.x])

\* runInternal returns: its deferred calls run, last registered first
ReturnDeferred ==
  /\ pc = "return"
  /\ LET st == RunDeferred(defers, [iter |-> iter, err |-> retErr, noColor |-> noColor])
     IN /\ iter' = st.iter
        /\ retErr' = st.err
        /\ noColor' = st.noColor
  /\ defers' = <<>>
  /\ pc' = "exit"
  /\ UNCHANGED <<opts, cli, outStream, errStream, nullIter, err, exitCode,
                 runs, ri, pulled, printed, children,
                 slurped>>

\* the exit code run derives from the error of runInternal
RunExitCode(e) ==
  IF e # Nil
    THEN IF HasExitCode(e) THEN ExitCode(e) ELSE exitCodeDefaultErr
    ELSE exitCodeOK

\* run: the error of runInternal is printed and turned into the exit code
RunExit ==
  /\ pc = "exit"
  /\ errStream' = IF retErr # Nil THEN printError(errStream, retErr) ELSE errStream
  /\ exitCode' = RunExitCode(retErr)
  /\ pc' = "done"
  /\ UNCHANGED <<opts, cli, noColor, defers, outStream, iter, nullIter, err,
                 retErr, runs, ri, pulled, printed, children,
                 slurped>>

Next ==
  \/ ParseArgs
  \/ SetColor
  \/ CheckIndent
  \/ CheckYAMLTab
  \/ BindArgs
  \/ LoadQuery
  \/ Compile
  \/ ProcessEnd
  \/ ProcessError
  \/ ProcessValue
  \/ PrintValuesEnd
  \/ PrintValuesError
  \/ PrintValuesValue
  \/ ReturnDeferred
  \/ RunExit

Spec == Init /\ [][Next]_vars

(***************************************************************************)
(* Properties.                                                             *)
(***************************************************************************)

RECURSIVE DrainAll(_)
\* every record an iterator yields until it reports exhaustion
DrainAll(it) ==
  LET r == IterNext(it) IN
  IF r.ok THEN <<r.v>> \o DrainAll(r.it) ELSE <<>>

\* the input sequence of the run: the records of the iterator given to process
InputRecords ==
  DrainAll(IF opts.InputNull THEN newNullInputIter
           ELSE createInputIter(cli, opts.files, opts.stdin))

InLoop == pc \in {"process", "printValues"}

\* the run went through process: the iterator was created and closed, and
\* the query compiled
LoopReached == iter.closed > 0 /\ retErr.type # "compileError"

\* the diagnostic lines of the diagnostic stream
DiagLines == SelectSeq(errStream, LAMBDA c : c.k = "diag")

Diagnostics(e) == {i \in 1..Len(errStream) : errStream[i].err = e}

\* the index of the first error item of a result sequence, else its length + 1
FirstError(rs) ==
  IF \E i \in 1..Len(rs) : IsError(rs[i])
    THEN CHOOSE i \in 1..Len(rs) : IsError(rs[i]) /\ \A j \in 1..(i - 1) : ~IsError(rs[j])
    ELSE Len(rs) + 1

WasPrinted(r, j) == \E p \in 1..Len(printed) : printed[p].run = r /\ printed[p].item = j

\* C1: an input record that is an error is printed and recorded, and the
\* loop goes on: process leaves its loop only when it has pulled every
\* record of the input sequence, every value record was passed to the
\* evaluator (in order), every error record has its diagnostic, and an error
\* record makes process return an error.
C1_ErrorRecordDoesNotEndLoop ==
  [][(InLoop /\ ~InLoop') =>
       /\ pulled' = InputRecords
       /\ [r \in 1..Len(runs') |-> runs'[r].input]
            = SelectSeq(InputRecords, LAMBDA v : ~IsError(v))
       /\ \A i \in 1..Len(pulled') :
            IsError(pulled'[i]) =>
              /\ \E d \in 1..Len(errStream') : errStream'[d].err = pulled'[i]
              /\ retErr' # Nil]_vars

\* a value record that follows an error record was passed to the evaluator
C1_Witness ==
  /\ pc = "done"
  /\ \E i, j \in 1..Len(pulled) :
       /\ i < j
       /\ IsError(pulled[i])
       /\ ~IsError(pulled[j])
       /\ \E r \in 1..Len(runs) : runs[r].input = pulled[j]
       /\ Diagnostics(pulled[i]) # {}

\* C2 as stated: every value item the evaluator yields after an error item
\* for the same input value is still written to the output stream.
C2_DrainingContinuesAfterError ==
  (pc = "done" /\ ~opts.outBroken) =>
    \A r \in 1..Len(runs) : \A j \in 1..Len(runs[r].results) :
      (~IsError(runs[r].results[j]) /\ FirstError(runs[r].results) < j)
        => WasPrinted(r, j)

\* C2, amended: an error item ends the draining of its result sequence.  It
\* is printed once and recorded, no item after it is pulled or written, the
\* values before it were written, and the loop goes on to the next input
\* record.
C2_ErrorItemEndsDraining ==
  /\ \A p \in 1..Len(printed) :
       printed[p].item < FirstError(runs[printed[p].run].results)
  /\ pc = "printValues" => ri < FirstError(Results)
  /\ (pc = "done" /\ runs # <<>>) =>
       /\ pulled = InputRecords
       /\ err # Nil <=> (\E i \in 1..Len(pulled) : IsError(pulled[i]))
                          \/ (\E r \in 1..Len(runs) :
                                FirstError(runs[r].results) <= Len(runs[r].results))
                          \/ (opts.outBroken /\ \E r \in 1..Len(runs) : runs[r].results # <<>>)
       /\ ~opts.outBroken =>
            /\ \A r \in 1..Len(runs) :
                 \A j \in 1..(FirstError(runs[r].results) - 1) : WasPrinted(r, j)
            /\ Cardinality({i \in 1..Len(errStream) :
                              /\ errStream[i].k = "diag"
                              /\ \E r \in 1..Len(runs) :
                                   /\ FirstError(runs[r].results) <= Len(runs[r].results)
                                   /\ errStream[i].err
                                        = runs[r].results[FirstError(runs[r].results)]})
                 = Cardinality({r \in 1..Len(runs) :
                                  FirstError(runs[r].results) <= Len(runs[r].results)})

\* a value before the error item was written, the one after it was not, and
\* a later input record was still evaluated
C2_Witness ==
  /\ pc = "done"
  /\ Len(runs) >= 2
  /\ \E i, j, k \in 1..Len(runs[1].results) :
       /\ i < j /\ j < k
       /\ WasPrinted(1, i)
       /\ IsError(runs[1].results[j])
       /\ ~IsError(runs[1].results[k])
       /\ ~WasPrinted(1, k)

\* the exit code exit-status mode derives from the last printed value
ExitCodeByLastValue ==
  IF printed = <<>> THEN exitCodeNoValueErr
  ELSE IF printed[Len(printed)].v \in {Null, False} THEN exitCodeFalsyErr
  ELSE exitCodeOK

\* C3 as stated: with exit-status mode enabled the exit code is determined
\* by the last successfully printed value of the whole run.
C3_ExitCodeByLastValue ==
  (pc = "done" /\ opts.ExitStatus /\ LoopReached) => exitCode = ExitCodeByLastValue

\* C3, amended: with exit-status mode enabled, a run that goes through the
\* input loop without any input-record, result or write error exits with the
\* code of the last value printed in the whole run (falsy, no value, or OK);
\* a run with such an error exits with the default error code instead.
C3_ExitCodeByLastValueUnlessError ==
  (pc = "done" /\ opts.ExitStatus /\ LoopReached) =>
    exitCode = IF err = Nil THEN ExitCodeByLastValue ELSE exitCodeDefaultErr

\* the last value of the run is falsy while an earlier record's was not
C3_Witness ==
  /\ pc = "done"
  /\ opts.ExitStatus
  /\ err = Nil
  /\ Len(runs) >= 2
  /\ \E p \in 1..Len(printed) : printed[p].run = 1 /\ ~(printed[p].v \in {Null, False})
  /\ printed[Len(printed)].run = Len(runs)
  /\ printed[Len(printed)].v = Null
  /\ exitCode = exitCodeFalsyErr

\* an input-record error, a result error or a failed write occurred in a
\* finished run
ErrorOccurred ==
  \/ \E i \in 1..Len(pulled) : IsError(pulled[i])
  \/ \E r \in 1..Len(runs) : FirstError(runs[r].results) <= Len(runs[r].results)
  \/ opts.outBroken /\ \E r \in 1..Len(runs) : runs[r].results # <<>>

RECURSIVE Produced(_)
\* the values the result iterators of the first n invocations have yielded
Produced(n) ==
  IF n = 0 THEN <<>>
  ELSE LET rs == runs[n].results
           upto == IF pc = "printValues" /\ n = Len(runs) THEN ri
                   ELSE FirstError(rs) - 1
       IN Produced(n - 1) \o SubSeq(rs, 1, upto)

OutValues ==
  LET vs == SelectSeq(outStream, LAMBDA c : c.k = "value")
  IN [i \in 1..Len(vs) |-> vs[i].v]

\* C4: in every run mode, a run with an input-record error or a result error
\* returns a non-zero exit code, and at every moment the output stream holds
\* every value the evaluator has yielded so far, before or after a failure.
C4_ErrorRunExitsNonZero ==
  /\ (pc = "done" /\ ErrorOccurred) => exitCode # exitCodeOK
  /\ ~opts.outBroken => OutValues = Produced(Len(runs))

\* exit-status mode, an error, and a truthy value printed after it
C4_Witness ==
  /\ pc = "done"
  /\ opts.ExitStatus
  /\ ErrorOccurred
  /\ exitCode # exitCodeOK
  /\ printed # <<>>
  /\ printed[Len(printed)].v = One
  /\ \E r \in 1..Len(runs) :
       /\ FirstError(runs[r].results) <= Len(runs[r].results)
       /\ r < printed[Len(printed)].run

\* the errors process met: error records, error items, failed writes
ErrorsMet ==
  Cardinality({i \in 1..Len(pulled) : IsError(pulled[i])})
  + Cardinality({r \in 1..Len(runs) :
                   \/ FirstError(runs[r].results) <= Len(runs[r].results)
                   \/ opts.outBroken /\ runs[r].results # <<>>})

\* C5: every input-record or result error produces exactly one diagnostic
\* line: the run that went through process ends with as many diagnostic
\* lines as errors were met, none of them for the error process returned.
C5_OneDiagnosticPerError ==
  (pc = "done" /\ LoopReached) =>
    /\ Len(DiagLines) = ErrorsMet
    /\ \A i \in 1..Len(DiagLines) : ~IsEmptyError(DiagLines[i].err)
    /\ \A i \in 1..Len(pulled) :
         IsError(pulled[i]) => Cardinality(Diagnostics(pulled[i])) = 1

\* an input-record error and a result error, one line each
C5_Witness ==
  /\ pc = "done"
  /\ LoopReached
  /\ \E i \in 1..Len(pulled) : IsError(pulled[i])
  /\ Diagnostics(QueryError) # {}
  /\ Len(errStream) >= 2
  /\ retErr # Nil

\* the run got as far as the indentation check
IndentCheckReached ==
  /\ opts.parse = "ok"
  /\ ~opts.Version
  /\ ~(~ChooseNoColor(opts) /\ opts.GOJQ_COLORS = "invalid")

IndentOutOfRange == opts.OutputIndent # <<>> /\ (opts.OutputIndent[1] < 0 \/ opts.OutputIndent[1] > 9)

NoInputTouched == iter = NoIter /\ nullIter = NoIter /\ pulled = <<>> /\ runs = <<>>

\* C6: for every requested indentation n, the indentation check passes
\* when 0 <= n <= 9 (the run goes on to the next check); when n < 0 or
\* n > 9 the check makes runInternal return the negative / too many
\* indentation count error, and in such a run the input iterator is never
\* created and no record is read or evaluated.
C6_IndentRange ==
  /\ [](IndentOutOfRange => NoInputTouched)
  /\ [][pc = "indent" =>
          IF IndentOutOfRange
            THEN /\ pc' = "return"
                 /\ retErr' = IF opts.OutputIndent[1] < 0
                                THEN Errorf("negative indentation count")
                                ELSE Errorf("too many indentation count")
            ELSE pc' = "yamltab" /\ retErr' = Nil]_vars

\* an indentation of 10 is rejected before the iterator exists
C6_Witness ==
  /\ pc = "done"
  /\ opts.OutputIndent = <<10>>
  /\ retErr = Errorf("too many indentation count")
  /\ exitCode = exitCodeDefaultErr
  /\ NoInputTouched

\* C7 as stated: with the YAML-output and tab flags both set the run is
\* rejected with "cannot use tabs for YAML output", whatever the other
\* flags and the environment are.
C7_YAMLTabAlwaysRejected ==
  (pc = "done" /\ opts.parse = "ok" /\ opts.OutputYAML /\ opts.OutputTab) =>
    retErr = Errorf("cannot use tabs for YAML output")

\* C7, amended: with the YAML-output and tab flags both set no input is
\* ever processed, and the run is rejected with "cannot use tabs for YAML
\* output" unless it ends before that check: on the help flag or a flag
\* error, on the version flag, on an invalid GOJQ_COLORS with color enabled,
\* or on an indentation outside 0..9, which is reported instead.
C7_YAMLTabRejectedUnlessEarlierExit ==
  (opts.OutputYAML /\ opts.OutputTab) =>
    /\ NoInputTouched
    /\ outStream = <<>> \/ opts.parse = "help" \/ opts.Version
    /\ pc = "done" =>
         retErr = CASE opts.parse = "help" -> Nil
                    [] opts.parse = "err" -> flagParseError
                    [] opts.parse = "ok" /\ opts.Version -> Nil
                    [] opts.parse = "ok" /\ ~opts.Version /\ ~IndentCheckReached ->
                         Errorf("invalid color")
                    [] IndentCheckReached /\ IndentOutOfRange ->
                         IF opts.OutputIndent[1] < 0
                           THEN Errorf("negative indentation count")
                           ELSE Errorf("too many indentation count")
                    [] OTHER -> Errorf("cannot use tabs for YAML output")

\* the rejection, with exit-status mode, null input and a valid indent set
C7_Witness ==
  /\ pc = "done"
  /\ opts.OutputYAML /\ opts.OutputTab
  /\ opts.ExitStatus /\ opts.InputNull /\ opts.OutputColor
  /\ opts.OutputIndent = <<9>>
  /\ retErr = Errorf("cannot use tabs for YAML output")
  /\ exitCode = exitCodeDefaultErr
  /\ errStream = <<[k |-> "diag", err |-> retErr]>>

\* the sources of the run, and all their documents in source order
Sources == IF opts.files = <<>> THEN <<opts.stdin>> ELSE opts.files

RECURSIVE AllDocs(_)
AllDocs(srcs) == IF srcs = <<>> THEN <<>> ELSE Head(srcs).docs \o AllDocs(Tail(srcs))

JSONInput == ~opts.InputRaw /\ ~opts.InputStream /\ ~opts.InputYAML

\* C8: in slurp mode (JSON input, not raw), when the sources hold N
\* well-formed documents and nothing else, the run makes exactly one
\* evaluator invocation, whose input is the array of all N decoded values
\* in source order.
C8_SlurpOneInvocation ==
  (opts.InputSlurp /\ JSONInput /\ ~opts.InputNull
     /\ \A i \in 1..Len(Sources) : ~Sources[i].bad) =>
    /\ Len(runs) <= 1
    /\ (pc = "done" /\ LoopReached) =>
         /\ Len(runs) = 1
         /\ runs[1].input = Array(AllDocs(Sources))
         /\ pulled = <<runs[1].input>>

\* two different documents of one source, slurped in order
C8_Witness ==
  /\ pc = "done"
  /\ opts.InputSlurp /\ JSONInput /\ ~opts.InputNull
  /\ Len(Sources) = 1
  /\ Len(runs) = 1
  /\ runs[1].input = Array(<<One, Null>>)
  /\ OutValues = <<Array(<<One, Null>>)>>

\* the input is file A, well-formed, then file B, malformed, read as JSON
\* one record at a time
ValidThenMalformed ==
  /\ Len(opts.files) >= 2
  /\ ~opts.files[1].bad
  /\ opts.files[2].bad
  /\ JSONInput /\ ~opts.InputSlurp /\ ~opts.InputNull

\* C9: given files A (valid JSON) then B (malformed JSON), the diagnostic
\* for B's error names B and is printed once, after all of A's results were
\* written; no diagnostic attributes a decode error to A; the exit code is
\* not zero.
C9_ErrorAttributedToItsFile ==
  ValidThenMalformed =>
    LET A == opts.files[1]
        B == opts.files[2]
        nA == Len(A.docs)
    IN /\ \A i \in 1..Len(errStream) :
            errStream[i].err.type = "jsonParseError" => errStream[i].err.fname # A.name
       /\ Cardinality(Diagnostics(jsonParseError(B.name))) <= 1
       /\ Diagnostics(jsonParseError(B.name)) # {} =>
            /\ Len(runs) >= nA
            /\ \A r \in 1..nA : runs[r].input = A.docs[r]
            /\ Len(OutValues) >= Len(Produced(nA))
            /\ SubSeq(OutValues, 1, Len(Produced(nA))) = Produced(nA)
       /\ (pc = "done" /\ LoopReached) =>
            /\ Cardinality(Diagnostics(jsonParseError(B.name))) = 1
            /\ exitCode # exitCodeOK

\* A's two results are in the output and B's error is the only diagnostic
C9_Witness ==
  /\ pc = "done"
  /\ ValidThenMalformed
  /\ Len(opts.files) = 2
  /\ opts.files[1].docs = <<One, Null>>
  /\ OutValues = <<One, Null>>
  /\ errStream = <<[k |-> "diag", err |-> jsonParseError("B")]>>
  /\ exitCode = exitCodeDefaultErr

\* C10: with null input selected the run makes exactly one evaluator
\* invocation, on null, whatever the files, standard input and the slurp,
\* raw, stream and YAML input flags are; process pulls no record from the
\* files or standard input.
C10_NullInputOneInvocation ==
  opts.InputNull =>
    /\ iter.reads = 0
    /\ \A i \in 1..Len(pulled) : pulled[i] = Null
    /\ Len(runs) <= 1
    /\ (pc = "done" /\ LoopReached) =>
         /\ Len(runs) = 1
         /\ runs[1].input = Null
         /\ pulled = <<Null>>

\* null input with slurp and raw set and two files holding documents
C10_Witness ==
  /\ pc = "done"
  /\ opts.InputNull /\ opts.InputSlurp /\ opts.InputRaw
  /\ Len(opts.files) = 2
  /\ opts.files[1].docs # <<>>
  /\ opts.files[2].bad
  /\ [r \in 1..Len(runs) |-> runs[r].input] = <<Null>>
  /\ iter.reads = 0
  /\ iter.closed = 1

\* C11: the run is pull-based and order-preserving.  The invocations are
\* made in the order of the input records; process pulls its next record
\* only when the result sequence of the previous one is drained or has
\* ended in an error, every value before that end written; and the values
\* on the output stream are the printed results ordered by input record
\* and, within a record, in the order the evaluator yielded them.
C11_PullBasedOrderPreserving ==
  /\ [](/\ \A p, q \in 1..Len(printed) :
             p < q => \/ printed[p].run < printed[q].run
                      \/ /\ printed[p].run = printed[q].run
                         /\ printed[p].item < printed[q].item
        /\ \A p \in 1..Len(printed) :
             printed[p].v = runs[printed[p].run].results[printed[p].item]
        /\ OutValues = [p \in 1..Len(printed) |-> printed[p].v]
        /\ [r \in 1..Len(runs) |-> runs[r].input]
             = SelectSeq(pulled, LAMBDA v : ~IsError(v)))
  /\ [][pulled' # pulled =>
          /\ pc = "process"
          /\ Len(pulled') = Len(pulled) + 1
          /\ SubSeq(pulled', 1, Len(pulled)) = pulled
          /\ \/ runs = <<>>
             \/ ri = Len(Results)
             \/ ri >= 1 /\ IsError(Results[ri])
             \/ ri >= 1 /\ opts.outBroken
          /\ (runs # <<>> /\ ~opts.outBroken) =>
               \A j \in 1..(FirstError(Results) - 1) : WasPrinted(Len(runs), j)]_vars

\* two results of the first record, then two of the second, in that order
C11_Witness ==
  /\ pc = "done"
  /\ pulled = <<One, Null>>
  /\ opts.query.results = <<Null, InputItem>>
  /\ OutValues = <<Null, One, Null, Null>>
  /\ [p \in 1..Len(printed) |-> printed[p].run] = <<1, 1, 2, 2>>

\* the documents and separator lines of the output stream
OutDocs == SelectSeq(outStream, LAMBDA c : c.k \in {"value", "separator"})

BadBinding ==
  \E b \in opts.ArgsJSON \cup opts.SlurpFile \cup opts.RawFile : b.v = "bad"

\* the command line makes the run fail at startup
StartupFails ==
  \/ opts.parse = "err"
  \/ /\ IndentCheckReached
     /\ \/ IndentOutOfRange
        \/ BadBinding
        \/ opts.FromFile = "unreadable"
        \/ ~opts.query.parses
        \/ ~opts.query.compiles

\* C13: a run that fails at startup (flag-parse failure, invalid indent,
\* unreadable or malformed argument binding, unreadable query file, query
\* parse failure, compile failure) processes no record: process pulls no
\* record, no source is read, the evaluator is never run, nothing is written
\* to the output stream, and the run ends with an error.
C13_StartupErrorsAbortBeforeInput ==
  StartupFails =>
    /\ pulled = <<>>
    /\ runs = <<>>
    /\ outStream = <<>>
    /\ iter.reads = 0
    /\ nullIter = NoIter
    /\ pc \in {"exit", "done"} => retErr # Nil
    /\ pc = "done" => exitCode # exitCodeOK

\* a compile failure: the iterator was created and closed, never read
C13_Witness ==
  /\ pc = "done"
  /\ opts.query.parses /\ ~opts.query.compiles
  /\ opts.ExitStatus
  /\ opts.SlurpFile # {}
  /\ iter.closed = 1
  /\ iter.reads = 0
  /\ runs = <<>>
  /\ outStream = <<>>
  /\ retErr = compileError

\* the query references exec or execpipe
ExecCalled == \E f \in opts.query.calls : f.name \in {"exec", "execpipe"}

\* the run got as far as creating the iterator and compiling the query
CompileReached == iter # NoIter

\* C14: when the query is compiled, exec and execpipe are absent from the
\* function table if the disable-unsafe mode is set, and each registered
\* once with exactly two arguments if it is not; with the mode set, a query
\* that references either ends the run with a compile error, without any
\* evaluator invocation or child process; with the mode not set such a query
\* compiles and is evaluated.
C14_UnsafeFiltersDisabled ==
  CompileReached =>
    /\ \A n \in {"exec", "execpipe"} :
         IF opts.DisableUnsafe
           THEN ~\E r \in copts(cli) : r.name = n
           ELSE /\ \E r \in copts(cli) : r.name = n
                /\ \A r \in copts(cli) : r.name = n => r.min = 2 /\ r.max = 2
    /\ (opts.DisableUnsafe /\ ExecCalled) =>
         /\ runs = <<>>
         /\ pulled = <<>>
         /\ children = <<>>
         /\ retErr = compileError
    /\ (~opts.DisableUnsafe /\ ExecCalled /\ opts.query.compiles /\ pc = "done") =>
         /\ retErr.type # "compileError"
         /\ runs # <<>>

\* execpipe referenced with the mode set: a compile error and no invocation
C14_Witness ==
  /\ pc = "done"
  /\ opts.DisableUnsafe
  /\ \E f \in opts.query.calls : f.name = "execpipe"
  /\ opts.query.results[1].type = "exec"
  /\ retErr = compileError
  /\ exitCode = exitCodeCompileErr
  /\ runs = <<>>
  /\ children = <<>>

\* the value chunks of the output stream
OutChunks == SelectSeq(outStream, LAMBDA c : c.k = "value")

\* C15 as stated: whenever NO_COLOR is a non-empty string, or TERM is dumb,
\* no value of the run is written colored, whatever the color flags and the
\* TTY probe say.
C15_NoColorHonoredUnconditionally ==
  (opts.NO_COLOR # "" \/ opts.TERM = "dumb") =>
    \A i \in 1..Len(OutChunks) : ~OutChunks[i].color

\* C15, amended: the color flags come first.  With --color-output or
\* --monochrome-output the output is colored exactly when --monochrome-output
\* is not set, whatever NO_COLOR, TERM and the TTY probe say; without them a
\* non-empty NO_COLOR disables color, an empty NO_COLOR is treated as not
\* set, and then the output is colored exactly when TERM is not dumb and the
\* output stream is a terminal.
C15_NoColorHonoredUnlessColorFlag ==
  /\ \A i \in 1..Len(OutChunks) :
       OutChunks[i].color =
         IF opts.OutputColor \/ opts.OutputMono THEN ~opts.OutputMono
         ELSE IF opts.NO_COLOR # "" THEN FALSE
         ELSE IF opts.TERM = "dumb" THEN FALSE
         ELSE opts.tty
  /\ (InLoop /\ ~opts.OutputColor /\ ~opts.OutputMono /\ opts.NO_COLOR # "") => noColor

\* --color-output with NO_COLOR set and a dumb terminal: colored output
C15_Witness ==
  /\ pc = "done"
  /\ opts.OutputColor /\ ~opts.OutputMono
  /\ opts.NO_COLOR # ""
  /\ opts.TERM = "dumb"
  /\ ~opts.tty
  /\ Len(OutChunks) = 1
  /\ OutChunks[1].color

\* C16: when runInternal has returned, on every exit path, the process-wide
\* color-disabled setting has the value it had before the call.
C16_NoColorRestored ==
  /\ pc \in {"exit", "done"} => noColor = opts.noColorBefore
  /\ pc = "start" => noColor = opts.noColorBefore

\* the setting was changed for the run, used to print, and restored
C16_Witness ==
  /\ pc = "done"
  /\ ChooseNoColor(opts) # opts.noColorBefore
  /\ Len(OutChunks) = 1
  /\ OutChunks[1].color = opts.noColorBefore
  /\ noColor = opts.noColorBefore

\* the names a flag's bindings bind
BoundNames(m) == {"$" \o b.k : b \in m}

\* C17 as stated: when the evaluator is invoked, the list of bound argument
\* names contains no name twice.
C17_BoundNamesUnique ==
  runs # <<>> =>
    \A i, j \in 1..Len(cli.argnames) : cli.argnames[i] = cli.argnames[j] => i = j

\* C17, amended: when the evaluator is invoked, the list of bound argument
\* names holds one name per binding: those of --arg, then those of
\* --argjson, of --slurpfile and of --rawfile; a name is unique among the
\* bindings of one flag only, and a name bound under two flags is in the
\* list once for each.
C17_BoundNamesUniquePerFlag ==
  runs # <<>> =>
    LET na == Cardinality(opts.Args)
        nj == Cardinality(opts.ArgsJSON)
        ns == Cardinality(opts.SlurpFile)
        nr == Cardinality(opts.RawFile)
        names(from, n) == {cli.argnames[i] : i \in (from + 1)..(from + n)}
    IN /\ Len(cli.argnames) = na + nj + ns + nr
       /\ names(0, na) = BoundNames(opts.Args)
       /\ names(na, nj) = BoundNames(opts.ArgsJSON)
       /\ names(na + nj, ns) = BoundNames(opts.SlurpFile)
       /\ names(na + nj + ns, nr) = BoundNames(opts.RawFile)
       /\ Cardinality(names(0, na)) = na
       /\ Cardinality(names(na, nj)) = nj
       /\ Cardinality(names(na + nj, ns)) = ns
       /\ Cardinality(names(na + nj + ns, nr)) = nr

\* $a bound by --arg, --argjson, --slurpfile and --rawfile, and evaluated
C17_Witness ==
  /\ pc = "done"
  /\ runs # <<>>
  /\ Len(cli.argnames) = 5
  /\ Cardinality({i \in 1..Len(cli.argnames) : cli.argnames[i] = "$a"}) = 4
  /\ OutValues = <<One>>
  /\ exitCode = exitCodeOK

\* the exec and execpipe calls of the query
ExecCallsOf(q) == {j \in 1..Len(q.results) : q.results[j].type = "exec"}

\* the arguments of a call are a path and an array of strings, and the
\* input of execpipe is a string or null
ValidCall(it, in) ==
  /\ it.fn = "execpipe" => (in.type = "string" \/ in = Null)
  /\ it.i2[1].type = "string"
  /\ it.i2[2].type = "array"
  /\ \A k \in 1..Len(it.i2[2].a) : it.i2[2].a[k].type = "string"

\* the child processes started for item j of invocation r
ChildrenOf(r, j) ==
  {i \in 1..Len(children) : children[i].run = r /\ children[i].item = j}

\* C18: for every call of exec or execpipe in an invocation: a call whose
\* arguments are not a string and an array of strings, or (execpipe) whose
\* input is neither a string nor null, gives an error and starts no child;
\* a child that cannot be started or exits non-zero gives an error; a child
\* that exits with zero gives its output as a string; the child of exec
\* always has empty standard input, and the child of execpipe has the
\* filter's input when it is a string and empty standard input when it is
\* null.
C18_ExecFilters ==
  \A r \in 1..Len(runs) : \A j \in ExecCallsOf(opts.query) :
    LET it == opts.query.results[j]
        in == runs[r].input
        res == runs[r].results[j]
        pulledItem == /\ ~opts.outBroken
                      /\ j <= FirstError(runs[r].results)
                      /\ (r < Len(runs) \/ pc # "printValues" \/ j <= ri)
    IN /\ ~ValidCall(it, in) => IsError(res) /\ ChildrenOf(r, j) = {}
       /\ it.outcome = "cannotStart" => IsError(res) /\ ChildrenOf(r, j) = {}
       /\ it.outcome = "nonzero" => IsError(res)
       /\ (ValidCall(it, in) /\ it.outcome = "ok") => res = Text("output")
       /\ Cardinality(ChildrenOf(r, j)) <= 1
       /\ (pulledItem /\ ValidCall(it, in) /\ it.outcome # "cannotStart") =>
            Cardinality(ChildrenOf(r, j)) = 1
       /\ \A i \in ChildrenOf(r, j) :
            /\ children[i].cmd.path = it.i2[1]
            /\ children[i].cmd.args = it.i2[2].a
            /\ children[i].cmd.stdin =
                 IF it.fn = "execpipe" /\ in.type = "string" THEN in.s ELSE <<>>

\* exec on a string input: the child ran with empty standard input and its
\* output was printed
C18_Witness ==
  /\ pc = "done"
  /\ Len(runs) = 1
  /\ opts.query.results[1].type = "exec"
  /\ opts.query.results[1].fn = "exec"
  /\ runs[1].input = Text("input")
  /\ Len(children) = 1
  /\ children[1].cmd.stdin = <<>>
  /\ children[1].cmd.args = <<Text("arg")>>
  /\ OutValues = <<Text("output")>>

\* the binding loops were passed without an error
BindingsRead == pc \in {"query", "compile", "process", "printValues"} \/ runs # <<>>

\* C19: the iterator built by createInputIter is open while process reads
\* from it and has been closed exactly once when runInternal has returned,
\* on every exit path after its creation (compile error, decode error, null
\* input, normal completion); every iterator slurpFile built for a
\* --slurpfile binding is closed once when slurpFile returns, with a value
\* or with an error.
C19_IteratorsClosed ==
  /\ iter.closed <= 1
  /\ InLoop => CompileReached /\ iter.closed = 0
  /\ (pc \in {"exit", "done"} /\ CompileReached) => iter.closed = 1
  /\ \A i \in 1..Len(slurped) : slurped[i].closed = 1
  /\ BindingsRead => Len(slurped) = Cardinality(opts.SlurpFile)
  /\ (pc = "done" /\ IndentCheckReached /\ ~IndentOutOfRange
        /\ opts.ArgsJSON = {} /\ opts.SlurpFile # {}) => slurped # <<>>

\* a --slurpfile binding was read and the input was processed to the end
C19_Witness ==
  /\ pc = "done"
  /\ Len(slurped) = 1
  /\ slurped[1].reads = 2
  /\ slurped[1].closed = 1
  /\ iter.closed = 1
  /\ iter.reads = 1
  /\ runs # <<>>
  /\ retErr = Nil

\* the evaluator runs the debug or the stderr filter in this step
FilterStep ==
  /\ pc = "printValues"
  /\ ri' = ri + 1
  /\ opts.query.results[ri + 1].type \in {"debug", "stderr"}

\* C20: in a step in which the evaluator runs debug or stderr, the filter's
\* result is its input value; the diagnostic stream gains the rendering of
\* the input (tagged, with a newline, for debug); the output stream gains
\* only what printValues writes for that value, and the separator flag and
\* the exit-status accumulator change only as printValues changes them for
\* that value; no rendering is ever on the output stream.
C20_DebugStderrIdentity ==
  /\ [](\A i \in 1..Len(outStream) : outStream[i].k # "filter")
  /\ [][FilterStep =>
          LET it == opts.query.results[ri + 1]
              in == runs[Len(runs)].input
              rendering ==
                IF it.type = "debug"
                  THEN <<[k |-> "filter", err |-> Nil,
                          v |-> Array(<<Text("DEBUG:"), in>>)],
                         [k |-> "newline", err |-> Nil]>>
                  ELSE <<[k |-> "filter", err |-> Nil, v |-> in]>>
              written ==
                (IF cli.outputYAMLSeparator THEN <<[k |-> "separator"]>> ELSE <<>>)
                \o <<[k |-> "value", v |-> in, m |-> createMarshaler(cli),
                      color |-> ~noColor]>>
                \o (IF cli.outputJoin \/ cli.outputYAML THEN <<>>
                    ELSE IF cli.outputNul THEN <<[k |-> "nul"]>>
                    ELSE <<[k |-> "newline"]>>)
          IN /\ Results[ri + 1] = in
             /\ errStream' =
                  errStream \o rendering
                    \o (IF opts.outBroken
                          THEN <<[k |-> "diag", err |-> Errorf("write error")]>>
                          ELSE <<>>)
             /\ outStream' =
                  IF opts.outBroken
                    THEN outStream
                           \o (IF cli.outputYAMLSeparator
                                 THEN <<[k |-> "failed", of |-> "separator"]>>
                                 ELSE <<>>)
                           \o <<[k |-> "failed", of |-> "value"]>>
                    ELSE outStream \o written
             /\ cli' = [cli EXCEPT
                          !.outputYAMLSeparator = cli.outputYAMLSeparator \/ cli.outputYAML,
                          !.exitCodeError =
                             IF opts.outBroken \/ cli.exitCodeError = Nil
                               THEN cli.exitCodeError
                             ELSE IF in = Null \/ in = False
                               THEN exitCodeError(exitCodeFalsyErr)
                             ELSE exitCodeError(exitCodeOK)]]_vars

\* debug then stderr on two records, in YAML output with exit-status mode
C20_Witness ==
  /\ pc = "done"
  /\ opts.query.results = <<DebugItem, StderrItem>>
  /\ opts.OutputYAML /\ opts.ExitStatus
  /\ OutValues = <<One, One, Null, Null>>
  /\ Len(errStream) = 6
  /\ errStream[1].v = Array(<<Text("DEBUG:"), One>>)
  /\ errStream[6].v = Null
  /\ DiagLines = <<>>
  /\ exitCode = exitCodeFalsyErr

\* the kinds of chunk that are terminators
Terminators == {"nul", "newline"}

\* C21: every value marshalled to the output stream is followed at once by
\* its terminator: none in join mode or YAML output (join before NUL when
\* both are set), else a NUL byte in NUL mode, else a newline; a terminator
\* is written only right after a marshalled value, and after a failed
\* marshal no terminator write is even attempted.
C21_TerminatorAfterEachValue ==
  /\ \A i \in 1..Len(outStream) :
       outStream[i].k = "value" =>
         IF opts.OutputJoin \/ opts.OutputYAML
           THEN i = Len(outStream) \/ ~(outStream[i + 1].k \in Terminators)
         ELSE /\ i < Len(outStream)
              /\ outStream[i + 1].k = IF opts.OutputNul THEN "nul" ELSE "newline"
  /\ \A i \in 1..Len(outStream) :
       outStream[i].k \in Terminators => i > 1 /\ outStream[i - 1].k = "value"
  /\ \A i \in 1..Len(outStream) :
       outStream[i].k = "failed" => ~(outStream[i].of \in Terminators)
  /\ (pc = "done" /\ opts.outBroken
        /\ \E r \in 1..Len(runs) :
             runs[r].results # <<>> /\ ~IsError(runs[r].results[1])) =>
       \E i \in 1..Len(outStream) :
         outStream[i].k = "failed" /\ outStream[i].of = "value"

\* join and NUL mode both set: two values and no terminator
C21_Witness ==
  /\ pc = "done"
  /\ opts.OutputJoin /\ opts.OutputNul /\ ~opts.OutputYAML
  /\ OutValues = <<One, False>>
  /\ Len(outStream) = 2

\* C22: the encoder of every value written is resolved from the output
\* flags by a fixed precedence: YAML output gives the YAML encoder with the
\* requested indent, whatever the raw, join, NUL and compact flags are;
\* otherwise the JSON encoder takes the tab flag and an indent of 0 if
\* compact is set, else 1 if tab is set, else the requested indent, else 2,
\* and is wrapped by the raw-string decorator exactly when raw, join or NUL
\* mode is set.
C22_MarshalerPrecedence ==
  \A i \in 1..Len(OutChunks) :
    LET m == OutChunks[i].m IN
    IF opts.OutputYAML
      THEN m.enc = "yaml" /\ m.indent = opts.OutputIndent /\ ~m.raw /\ ~m.tab
      ELSE /\ m.enc = "json"
           /\ m.tab = opts.OutputTab
           /\ m.raw = (opts.OutputRaw \/ opts.OutputJoin \/ opts.OutputNul)
           /\ opts.OutputCompact => m.indent = <<0>>
           /\ (~opts.OutputCompact /\ opts.OutputTab) => m.indent = <<1>>
           /\ (~opts.OutputCompact /\ ~opts.OutputTab /\ opts.OutputIndent # <<>>) =>
                m.indent = opts.OutputIndent
           /\ (~opts.OutputCompact /\ ~opts.OutputTab /\ opts.OutputIndent = <<>>) =>
                m.indent = <<2>>

\* compact, tab and an indent of 4 all set, with NUL mode: indent 0, raw
C22_Witness ==
  /\ pc = "done"
  /\ ~opts.OutputYAML
  /\ opts.OutputCompact /\ opts.OutputTab /\ opts.OutputIndent = <<4>>
  /\ opts.OutputNul /\ ~opts.OutputRaw /\ ~opts.OutputJoin
  /\ Len(OutChunks) = 2
  /\ OutChunks[1].m = [enc |-> "json", indent |-> <<0>>, tab |-> TRUE, raw |-> TRUE]

\* C23: the exit-status accumulator changes only in exit-status mode: when
\* the mode sets it up, to the no-value state, and when a value was
\* marshalled successfully, to the state of that value, so that it never
\* returns to the no-value state once a value was printed.  With the mode
\* disabled it stays unset for the whole run, and the exit code is 0 exactly
\* when the run printed no diagnostic, however many values were printed and
\* whatever the last one was.
C23_AccumulatorOnlyInExitStatusMode ==
  /\ [](/\ ~opts.ExitStatus => cli.exitCodeError = Nil
        /\ (opts.ExitStatus /\ printed # <<>>) =>
             cli.exitCodeError =
               IF printed[Len(printed)].v = Null \/ printed[Len(printed)].v = False
                 THEN exitCodeError(exitCodeFalsyErr)
                 ELSE exitCodeError(exitCodeOK)
        /\ (pc = "done" /\ ~opts.ExitStatus) =>
             /\ (exitCode = exitCodeOK) <=> (DiagLines = <<>>)
             /\ ErrorOccurred => exitCode # exitCodeOK)
  /\ [][cli'.exitCodeError # cli.exitCodeError =>
          /\ opts.ExitStatus
          /\ \/ /\ pc = "query"
                /\ cli.exitCodeError = Nil
                /\ cli'.exitCodeError = exitCodeError(exitCodeNoValueErr)
             \/ /\ pc = "printValues"
                /\ Len(printed') = Len(printed) + 1
                /\ cli'.exitCodeError # exitCodeError(exitCodeNoValueErr)]_vars

\* the mode disabled: values were printed, the last one false, and the run
\* exits with 0
C23_Witness ==
  /\ pc = "done"
  /\ ~opts.ExitStatus
  /\ Len(printed) >= 2
  /\ printed[Len(printed)].v = False
  /\ cli.exitCodeError = Nil
  /\ exitCode = exitCodeOK

====
